---- MODULE Spec2Model ----
(***************************************************************************)
(* useEffectReducer (src/src/index.tsx): a reducer whose calls queue       *)
(* effect entities, and the React effects that stop and start them.        *)
(*                                                                         *)
(* The hook's reducer state is the aggregate                               *)
(*   [state, effectStateTuples, entitiesToStop,                            *)
(*    layoutEffectStateTuples, layoutEntitiesToStop].                      *)
(* React keeps the dispatched events in the hook's update queue and runs   *)
(* wrappedReducer over them when it renders; a commit runs the two         *)
(* useLayoutEffect callbacks at once and the two useEffect callbacks       *)
(* later, before the next render.                                          *)
(***************************************************************************)
EXTENDS Integers, Sequences, FiniteSets, TLC

\* Bounds of the model.
MaxDispatches == 3      \* events dispatched from outside the hook
MaxEntities == 3        \* effect entities created over a run

\* An entity reference that is undefined (state.timer before any effect).
Undefined == 0

\* enum EntityStatus
Idle == "Idle"
Started == "Started"
Stopped == "Stopped"

\* event.type of the internal flush event
flushEffectsSymbol == "@@flush"

VARIABLES
    mounted,            \* the component is mounted
    phase,              \* "layout": commit done, layout effects to run;
                        \* "passive": passive effects to run; "idle"
    agg,                \* the aggregate state of the last render
    changed,            \* the arrays of agg that are new objects in this commit
    queue,              \* React's update queue: events dispatched, not yet reduced
    ents,               \* the effect entities ever created, by identity (index)
    entitiesRef,        \* entitiesRef.current
    layoutEntitiesRef,  \* layoutEntitiesRef.current
    startLog,           \* ghost: the entities in the order their bodies ran
    viaString,          \* ghost: the last wrappedDispatch got a bare type string
    burst               \* ghost: "none": nothing dispatched yet; "open": events
                        \* were dispatched and nothing else has happened since;
                        \* "closed": all dispatches were one burst;
                        \* "broken": an event was dispatched after the burst

vars == <<mounted, phase, agg, changed, queue, ents, entitiesRef,
          layoutEntitiesRef, startLog, viaString, burst>>

----------------------------------------------------------------------------
\* Sequence helpers (Array.prototype.slice(n), membership)

Slice(s, n) == SubSeq(s, n + 1, Len(s))

Range(s) == {s[i] : i \in 1..Len(s)}

----------------------------------------------------------------------------
\* Events

\* event.type as JavaScript reads it: undefined on a bare string
TypeOf(event) == IF "type" \in DOMAIN event THEN event.type ELSE "undefined"

\* typeof event === 'string'
IsString(event) == "str" \in DOMAIN event

toEventObject_Identity(event) == event

toEventObject(event) ==
    IF IsString(event) THEN [type |-> event.str] ELSE event

EventTypes == {"NOOP", "LOG", "START", "LSTART", "BOTH", "STOP", "REPLACE", "STOPEXEC"}

StringEvent(t) == [str |-> t]
ObjectEvent(t) == [type |-> t]

----------------------------------------------------------------------------
\* Effect descriptors, their implementations and the normalizer

\* The effect implementations of the scenario: what running a body does.
\*   "timer": returns a disposal function; "log", "fetch": return nothing;
\*   "inherited": a function every object inherits from Object.prototype,
\*   returns no function; "none": no exec at all; "throws": throws before
\*   it returns; "badTimer": returns a disposal function that throws.
NoExec == "none"
ReturnsCleanup(impl) == impl \in {"timer", "badTimer"}
Throws(impl) == impl = "throws"
CleanupThrows(impl) == impl = "badTimer"

\* function-form descriptors (typeof effect === 'function')
FnEffect(name, impl) ==
    [form |-> "function", type |-> name, exec |-> impl, layout |-> FALSE]
\* record-form descriptors
RecEffect(type, impl) ==
    [form |-> "record", type |-> type, exec |-> impl, layout |-> FALSE]

TimerEffect == FnEffect("", "timer")
LogEffect == FnEffect("", "log")
ThrowEffect == FnEffect("", "throws")
BadTimerEffect == FnEffect("", "badTimer")
FetchEffect == RecEffect("fetchData", NoExec)

\* the effectsMap argument of the scenario
effectsMap == [fetchData |-> "fetch"]

\* property names every object literal inherits from Object.prototype
ObjectPrototypeKeys == {"toString", "valueOf", "constructor", "hasOwnProperty"}

\* effectsMap[type]: a property read, own properties first, then the
\* prototype's
MapLookup(map, type) ==
    IF type \in DOMAIN map
    THEN map[type]
    ELSE IF type \in ObjectPrototypeKeys THEN "inherited" ELSE NoExec

toEffectObject(effect, map) ==
    LET type == effect.type
        layoutEffect == IF effect.form = "function" THEN FALSE ELSE effect.layout
        customExec == MapLookup(map, type)
        exec == IF customExec # NoExec THEN customExec ELSE effect.exec
    IN  [form |-> "record", type |-> type, exec |-> exec, layout |-> layoutEffect]

----------------------------------------------------------------------------
\* Effect entities

\* ghost fields: ran (the states the body was run with, one per run),
\* cleanups (times the disposal function ran), queuedWith (the state the
\* reducer call that created the entity returned), replaces (the entity
\* exec.replace was given), stopAsked (exec.stop or exec.replace named the
\* entity while it was Started), inline (the exec the descriptor given to
\* exec or exec.layout carried), stoppedAt (how many effect bodies had run
\* when a stop phase last called stop() on the entity).
createEffectEntity(effect) ==
    [type |-> effect.type, status |-> Idle, layout |-> effect.layout,
     exec |-> effect.exec, effectCleanup |-> FALSE,
     ran |-> <<>>, cleanups |-> 0, queuedWith |-> <<>>,
     replaces |-> Undefined, stopAsked |-> FALSE, inline |-> NoExec,
     stoppedAt |-> <<>>]

EntityStart_StatusFirst(entity, state) ==
    IF entity.exec # NoExec
    THEN IF Throws(entity.exec)
         THEN [entity EXCEPT !.ran = Append(@, state), !.status = Started]
         ELSE [entity EXCEPT !.effectCleanup = ReturnsCleanup(entity.exec),
                             !.ran = Append(@, state),
                             !.status = Started]
    ELSE [entity EXCEPT !.status = Started]

\* entity.start(state, dispatch); when effect.exec throws, neither
\* assignment of start is reached
EntityStart(entity, state) ==
    IF entity.exec # NoExec
    THEN IF Throws(entity.exec)
         THEN [entity EXCEPT !.ran = Append(@, state)]
         ELSE [entity EXCEPT !.effectCleanup = ReturnsCleanup(entity.exec),
                             !.ran = Append(@, state),
                             !.status = Started]
    ELSE [entity EXCEPT !.status = Started]

\* effectCleanup() throws
StopThrows(entity) == entity.effectCleanup /\ CleanupThrows(entity.exec)

\* entity.stop(); when effectCleanup() throws, the assignment of stop is
\* not reached
EntityStop(entity) ==
    IF entity.effectCleanup
    THEN IF CleanupThrows(entity.exec)
         THEN [entity EXCEPT !.cleanups = @ + 1]
         ELSE [entity EXCEPT !.cleanups = @ + 1, !.status = Stopped]
    ELSE [entity EXCEPT !.status = Stopped]

----------------------------------------------------------------------------
\* The reducer call: exec, exec.stop, exec.replace, exec.layout

\* The state of one wrappedReducer call: the entity heap, the four local
\* arrays of the call, and the value the last exec returned.
NewCall(es) ==
    [ents |-> es,
     nextEffectEntities |-> <<>>, nextEntitiesToStop |-> <<>>,
     nextLayoutEffectEntities |-> <<>>, nextLayoutEntitiesToStop |-> <<>>,
     ret |-> Undefined]

\* (x[layoutEffectsSymbol] ? layoutArray : array).push(id)
PushByPhase(c, isLayout, id, layoutArray, array) ==
    IF isLayout
    THEN [c EXCEPT ![layoutArray] = Append(@, id)]
    ELSE [c EXCEPT ![array] = Append(@, id)]

\* exec(effect)
Exec(c, effect) ==
    LET effectObject == toEffectObject(effect, effectsMap)
        id == Len(c.ents) + 1
        c1 == [c EXCEPT !.ents = Append(@, [createEffectEntity(effectObject)
                                               EXCEPT !.inline = effect.exec]),
                        !.ret = id]
    IN  PushByPhase(c1, effectObject.layout, id,
                    "nextLayoutEffectEntities", "nextEffectEntities")

\* ghost: note that a stop was asked for a running entity
NoteStop(c, entity) ==
    IF c.ents[entity].status = Started
    THEN [c EXCEPT !.ents[entity].stopAsked = TRUE]
    ELSE c

ExecStop_AtOnce(c, entity) ==
    LET c1 == PushByPhase(NoteStop(c, entity), c.ents[entity].layout, entity,
                          "nextLayoutEntitiesToStop", "nextEntitiesToStop")
    IN  [c1 EXCEPT !.ents[entity] = EntityStop(@)]

ExecStop_NormalOnly(c, entity) ==
    PushByPhase(NoteStop(c, entity), FALSE, entity,
                "nextLayoutEntitiesToStop", "nextEntitiesToStop")

\* exec.stop(entity)
ExecStop(c, entity) ==
    PushByPhase(NoteStop(c, entity), c.ents[entity].layout, entity,
                "nextLayoutEntitiesToStop", "nextEntitiesToStop")

ExecReplace_NoStop(c, entity, effect) ==
    LET c2 == Exec(c, effect)
    IN  [c2 EXCEPT !.ents[c2.ret].replaces = entity]

\* exec.replace(entity, effect)
ExecReplace(c, entity, effect) ==
    LET c1 == IF entity # Undefined
              THEN PushByPhase(NoteStop(c, entity), c.ents[entity].layout, entity,
                               "nextLayoutEntitiesToStop", "nextEntitiesToStop")
              ELSE c
        c2 == Exec(c1, effect)
    IN  [c2 EXCEPT !.ents[c2.ret].replaces = entity]

\* exec.layout(effect)
ExecLayout(c, effect) ==
    LET effectObject == toEffectObject(effect, effectsMap)
        c1 == Exec(c, [effectObject EXCEPT !.layout = TRUE])
    IN  [c1 EXCEPT !.ents[c1.ret].inline = effect.exec]

\* The effect reducer of the scenario (the timer reducer of the README and
\* the counting reducer of the tests): every known event counts, START,
\* LSTART and REPLACE keep the entity in state.timer; EXEC runs the named
\* effect the event carries; TWO calls exec twice; THROW queues an effect
\* that throws, BAD one whose disposal function throws; on BOOM the reducer
\* calls exec and then throws (the value is what the call did until then).
effectReducer(state, event, c) ==
    LET t == TypeOf(event)
        counted == [state EXCEPT !.count = @ + 1]
    IN  CASE t = "NOOP" -> [state |-> counted, c |-> c]
          [] t = "LOG" -> [state |-> counted, c |-> Exec(c, LogEffect)]
          [] t = "START" ->
                LET c1 == Exec(c, TimerEffect)
                IN  [state |-> [counted EXCEPT !.timer = c1.ret], c |-> c1]
          [] t = "LSTART" ->
                LET c1 == ExecLayout(c, TimerEffect)
                IN  [state |-> [counted EXCEPT !.timer = c1.ret], c |-> c1]
          [] t = "BOTH" ->
                [state |-> counted, c |-> ExecLayout(Exec(c, LogEffect), LogEffect)]
          [] t = "STOP" ->
                [state |-> counted,
                 c |-> IF state.timer # Undefined THEN ExecStop(c, state.timer) ELSE c]
          [] t = "REPLACE" ->
                LET c1 == ExecReplace(c, state.timer, TimerEffect)
                IN  [state |-> [counted EXCEPT !.timer = c1.ret], c |-> c1]
          [] t = "STOPEXEC" ->
                LET c0 == IF state.timer # Undefined THEN ExecStop(c, state.timer) ELSE c
                    c1 == Exec(c0, TimerEffect)
                IN  [state |-> [counted EXCEPT !.timer = c1.ret], c |-> c1]
          [] t = "EXEC" -> [state |-> counted, c |-> Exec(c, event.effect)]
          [] t = "TWO" ->
                [state |-> counted, c |-> Exec(Exec(c, LogEffect), TimerEffect)]
          [] t = "THROW" -> [state |-> counted, c |-> Exec(c, ThrowEffect)]
          [] t = "BAD" ->
                LET c1 == Exec(c, BadTimerEffect)
                IN  [state |-> [counted EXCEPT !.timer = c1.ret], c |-> c1]
          [] t = "BOOM" -> [state |-> state, c |-> Exec(c, TimerEffect)]
          [] OTHER -> [state |-> state, c |-> c]

\* ghost: the entities a call created remember the state the call returned
NoteQueued(es, ids, nextState) ==
    [i \in DOMAIN es |->
        IF i \in ids THEN [es[i] EXCEPT !.queuedWith = <<nextState>>] ELSE es[i]]

AllArrays == {"effectStateTuples", "entitiesToStop",
              "layoutEffectStateTuples", "layoutEntitiesToStop"}

\* the arrays of a call's result that are new objects
FreshArrays(c) ==
    {"entitiesToStop", "layoutEntitiesToStop"}
        \cup (IF Len(c.nextEffectEntities) > 0 THEN {"effectStateTuples"} ELSE {})
        \cup (IF Len(c.nextLayoutEffectEntities) > 0
              THEN {"layoutEffectStateTuples"} ELSE {})

Aggregate_AlwaysAppend(a, nextState, c) ==
    [agg |->
        [state |-> nextState,
         effectStateTuples |->
            Append(a.effectStateTuples,
                   [state |-> nextState, entities |-> c.nextEffectEntities]),
         entitiesToStop |-> a.entitiesToStop \o c.nextEntitiesToStop,
         layoutEffectStateTuples |->
            Append(a.layoutEffectStateTuples,
                   [state |-> nextState, entities |-> c.nextLayoutEffectEntities]),
         layoutEntitiesToStop |-> a.layoutEntitiesToStop \o c.nextLayoutEntitiesToStop],
     ents |-> c.ents,
     fresh |-> AllArrays,
     invoked |-> TRUE,
     thrown |-> FALSE]

\* the return of wrappedReducer after the user's reducer returned nextState
\* and left the local arrays c
Aggregate(a, nextState, c) ==
    [agg |->
        [state |-> nextState,
         effectStateTuples |->
            IF Len(c.nextEffectEntities) > 0
            THEN Append(a.effectStateTuples,
                        [state |-> nextState, entities |-> c.nextEffectEntities])
            ELSE a.effectStateTuples,
         entitiesToStop |->
            IF Len(a.entitiesToStop) > 0
            THEN a.entitiesToStop \o c.nextEntitiesToStop
            ELSE c.nextEntitiesToStop,
         layoutEffectStateTuples |->
            IF Len(c.nextLayoutEffectEntities) > 0
            THEN Append(a.layoutEffectStateTuples,
                        [state |-> nextState, entities |-> c.nextLayoutEffectEntities])
            ELSE a.layoutEffectStateTuples,
         layoutEntitiesToStop |->
            IF Len(a.layoutEntitiesToStop) > 0
            THEN a.layoutEntitiesToStop \o c.nextLayoutEntitiesToStop
            ELSE c.nextLayoutEntitiesToStop],
     ents |-> NoteQueued(c.ents,
                         Range(c.nextEffectEntities)
                             \cup Range(c.nextLayoutEffectEntities),
                         nextState),
     fresh |-> FreshArrays(c),
     invoked |-> TRUE,
     thrown |-> FALSE]

AggregateOf(a, r) == Aggregate(a, r.state, r.c)

\* effectReducer(state, event, exec) throws
ReducerThrows(event) == TypeOf(event) = "BOOM"

\* wrappedReducer when the user's reducer throws: nothing is returned; the
\* entities its exec calls created are left on the heap
Thrown(a, r) ==
    [agg |-> a, ents |-> r.c.ents, fresh |-> {}, invoked |-> TRUE,
     thrown |-> TRUE]

wrappedReducer_CatchThrow(a, event, es) ==
    IF TypeOf(event) = flushEffectsSymbol
    THEN [agg |-> [state |-> a.state,
                   effectStateTuples |-> Slice(a.effectStateTuples, event.count),
                   entitiesToStop |-> <<>>,
                   layoutEffectStateTuples |-> Slice(a.layoutEffectStateTuples, event.count),
                   layoutEntitiesToStop |-> <<>>],
          ents |-> es,
          fresh |-> AllArrays,
          invoked |-> FALSE,
          thrown |-> FALSE]
    ELSE AggregateOf(a, effectReducer(a.state, event, NewCall(es)))

wrappedReducer_FlushResets(a, event, es) ==
    IF TypeOf(event) = flushEffectsSymbol
    THEN [agg |-> [state |-> [count |-> 0, timer |-> 0],
                   effectStateTuples |-> Slice(a.effectStateTuples, event.count),
                   entitiesToStop |-> <<>>,
                   layoutEffectStateTuples |-> Slice(a.layoutEffectStateTuples, event.count),
                   layoutEntitiesToStop |-> <<>>],
          ents |-> es,
          fresh |-> AllArrays,
          invoked |-> FALSE,
          thrown |-> FALSE]
    ELSE AggregateOf(a, effectReducer(a.state, event, NewCall(es)))

\* wrappedReducer(aggregate, event), with the entity heap; fresh names the
\* arrays of the result that are new objects (the effects' dependencies);
\* ghost invoked: the call has called the user's reducer.
wrappedReducer(a, event, es) ==
    IF TypeOf(event) = flushEffectsSymbol
    THEN [agg |-> [state |-> a.state,
                   effectStateTuples |-> Slice(a.effectStateTuples, event.count),
                   entitiesToStop |-> <<>>,
                   layoutEffectStateTuples |-> Slice(a.layoutEffectStateTuples, event.count),
                   layoutEntitiesToStop |-> <<>>],
          ents |-> es,
          fresh |-> AllArrays,
          invoked |-> FALSE,
          thrown |-> FALSE]
    ELSE IF ReducerThrows(event)
         THEN Thrown(a, effectReducer(a.state, event, NewCall(es)))
         ELSE AggregateOf(a, effectReducer(a.state, event, NewCall(es)))

\* one update of the queue: the reducer's result, the new arrays added up
AddFresh(fresh, r) == [r EXCEPT !.fresh = fresh \cup @]

ReduceOne(acc, event) ==
    AddFresh(acc.fresh, wrappedReducer(acc.agg, event, acc.ents))

\* useReducer: React runs the reducer over the queued events, in order,
\* until a call throws
RECURSIVE ReduceAll(_, _)
ReduceAll(acc, q) ==
    IF q = <<>> \/ acc.thrown
    THEN acc
    ELSE ReduceAll(ReduceOne(acc, Head(q)), Tail(q))

\* the hook's state as a render starts from it
Rendering == [agg |-> agg, ents |-> ents, fresh |-> {}, thrown |-> FALSE]

----------------------------------------------------------------------------
\* The effects of the hook (the driver)

RECURSIVE StopEach_KeepTracked(_, _)
StopEach_KeepTracked(d, list) ==
    IF list = <<>>
    THEN d
    ELSE StopEach_KeepTracked([d EXCEPT !.ents[Head(list)] = EntityStop(@)],
                              Tail(list))

RECURSIVE StopEach_OnlyStarted(_, _)
StopEach_OnlyStarted(d, list) ==
    IF list = <<>>
    THEN d
    ELSE StopEach_OnlyStarted(
             IF d.ents[Head(list)].status = Started
             THEN [d EXCEPT !.ents[Head(list)] = EntityStop(@),
                            !.ref = @ \ {Head(list)}]
             ELSE d,
             Tail(list))

RECURSIVE StopEach_GoOn(_, _)
StopEach_GoOn(d, list) ==
    IF list = <<>>
    THEN d
    ELSE LET entity == Head(list)
         IN  StopEach_GoOn(
                 [d EXCEPT !.ents[entity] =
                               [EntityStop(@) EXCEPT !.stoppedAt = <<Len(d.log)>>],
                           !.ref = IF StopThrows(d.ents[entity])
                                   THEN @ ELSE @ \ {entity},
                           !.thrown = @ \/ StopThrows(d.ents[entity])],
                 Tail(list))

\* entitiesToStop.forEach(entity => { entity.stop(); ref.delete(entity) });
\* a stop() that throws ends the forEach and the effect callback
RECURSIVE StopEach(_, _)
StopEach(d, list) ==
    IF list = <<>> \/ d.thrown
    THEN d
    ELSE LET entity == Head(list)
         IN  StopEach([d EXCEPT !.ents[entity] =
                                    [EntityStop(@) EXCEPT !.stoppedAt = <<Len(d.log)>>],
                                !.ref = IF StopThrows(d.ents[entity])
                                        THEN @ ELSE @ \ {entity},
                                !.thrown = StopThrows(d.ents[entity])],
                      Tail(list))

\* the stop effect: if (entitiesToStop.length) { ... }, deps [entitiesToStop]
StopPhase(d, list, isChanged) ==
    IF isChanged /\ Len(list) > 0 THEN StopEach(d, list) ELSE d

StartOne_CurrentState(d, entity, effectState) ==
    IF d.ents[entity].status # Idle
    THEN d
    ELSE [d EXCEPT !.ref = @ \cup {entity},
                   !.ents[entity] = EntityStart(@, agg.state),
                   !.log = IF d.ents[entity].exec # NoExec
                           THEN Append(@, entity) ELSE @]

StartOne_Unguarded(d, entity, effectState) ==
    [d EXCEPT !.ref = @ \cup {entity},
              !.ents[entity] = EntityStart(@, effectState),
              !.log = IF d.ents[entity].exec # NoExec
                      THEN Append(@, entity) ELSE @]

StartOne_NoTrack(d, entity, effectState) ==
    IF d.thrown \/ d.ents[entity].status # Idle
    THEN d
    ELSE [d EXCEPT !.ents[entity] = EntityStart(@, effectState),
                   !.log = IF d.ents[entity].exec # NoExec
                           THEN Append(@, entity) ELSE @,
                   !.thrown = Throws(d.ents[entity].exec)]

\* if (entity.status !== EntityStatus.Idle) return;
\* ref.add(entity); entity.start(effectState, dispatch);
\* a start that throws ends both forEach loops and the effect callback
StartOne(d, entity, effectState) ==
    IF d.thrown \/ d.ents[entity].status # Idle
    THEN d
    ELSE [d EXCEPT !.ref = @ \cup {entity},
                   !.ents[entity] = EntityStart(@, effectState),
                   !.log = IF d.ents[entity].exec # NoExec
                           THEN Append(@, entity) ELSE @,
                   !.thrown = Throws(d.ents[entity].exec)]

RECURSIVE StartEach_LastFirst(_, _, _)
StartEach_LastFirst(d, effectEntities, effectState) ==
    IF effectEntities = <<>>
    THEN d
    ELSE StartOne(StartEach_LastFirst(d, Tail(effectEntities), effectState),
                  Head(effectEntities), effectState)

\* effectEntities.forEach(entity => ...)
RECURSIVE StartEach(_, _, _)
StartEach(d, effectEntities, effectState) ==
    IF effectEntities = <<>>
    THEN d
    ELSE StartEach(StartOne(d, Head(effectEntities), effectState),
                   Tail(effectEntities), effectState)

\* tuples.forEach(([effectState, effectEntities]) => ...)
RECURSIVE StartTuples(_, _)
StartTuples(d, tuples) ==
    IF tuples = <<>>
    THEN d
    ELSE StartTuples(StartEach(d, Head(tuples).entities, Head(tuples).state),
                     Tail(tuples))

\* dispatch({ type: flushEffectsSymbol, count: tuples.length })
\* ghost fields: observed, the tuples the pass has just gone over, and
\* layout, the pass is the layout pass
DispatchFlush(d, tuples) ==
    IF d.thrown
    THEN d
    ELSE [d EXCEPT !.queue = Append(@, [type |-> flushEffectsSymbol,
                                        count |-> Len(tuples),
                                        observed |-> tuples,
                                        layout |-> d.layout])]

\* the start effect: if (tuples.length) { start them; dispatch(flush) },
\* deps [tuples]
StartPhase(d, tuples, isChanged) ==
    IF ~d.thrown /\ isChanged /\ Len(tuples) > 0
    THEN DispatchFlush(StartTuples(d, tuples), tuples)
    ELSE d

DriverPass_StartFirst(d, list, listChanged, tuples, tuplesChanged) ==
    StopPhase(StartPhase(d, tuples, tuplesChanged), list, listChanged)

\* the effects of one kind of a commit run in the order the hook declares
\* them: the stop effect, then the start effect
DriverPass(d, list, listChanged, tuples, tuplesChanged) ==
    StartPhase(StopPhase(d, list, listChanged), tuples, tuplesChanged)

StopStarted_SkipLayout(es, ref) ==
    [i \in DOMAIN es |->
        IF i \in ref /\ es[i].status = Started /\ ~es[i].layout
        THEN EntityStop(es[i]) ELSE es[i]]

\* the cleanup of the unmount effect:
\* ref.forEach(entity => { if (entity.status === Started) entity.stop() }),
\* in the order the entities were added (the order they were created in);
\* a stop() that throws ends the forEach
StopStarted(es, ref) ==
    [i \in DOMAIN es |->
        IF /\ i \in ref
           /\ es[i].status = Started
           /\ \A j \in ref : (j < i /\ es[j].status = Started) => ~StopThrows(es[j])
        THEN EntityStop(es[i])
        ELSE es[i]]

----------------------------------------------------------------------------
\* Initial state: the first render has run, its effects have not

InitialDomainState == [count |-> 0, timer |-> Undefined]

EmptyAggregate(s) ==
    [state |-> s, effectStateTuples |-> <<>>, entitiesToStop |-> <<>>,
     layoutEffectStateTuples |-> <<>>, layoutEntitiesToStop |-> <<>>]

initialStateAndEffects_NoTuple(isFunction) ==
    IF isFunction
    THEN [agg |-> EmptyAggregate(InitialDomainState),
          ents |-> NoteQueued(Exec(NewCall(<<>>), FetchEffect).ents, {1},
                              InitialDomainState)]
    ELSE [agg |-> EmptyAggregate(InitialDomainState), ents |-> <<>>]

\* initialStateAndEffects: the literal form, and the function form whose
\* initializer calls exec(effect) once and returns the initial state
initialStateAndEffects(isFunction) ==
    IF isFunction
    THEN LET c == Exec(NewCall(<<>>), FetchEffect)
             resolvedInitialState == InitialDomainState
         IN  [agg |-> [state |-> resolvedInitialState,
                       effectStateTuples |->
                          <<[state |-> resolvedInitialState,
                             entities |-> c.nextEffectEntities]>>,
                       entitiesToStop |-> <<>>,
                       layoutEffectStateTuples |->
                          <<[state |-> resolvedInitialState,
                             entities |-> c.nextLayoutEffectEntities]>>,
                       layoutEntitiesToStop |-> <<>>],
              ents |-> NoteQueued(c.ents, Range(c.nextEffectEntities),
                                  resolvedInitialState)]
    ELSE [agg |-> EmptyAggregate(InitialDomainState), ents |-> <<>>]

Init ==
    \E isFunction \in BOOLEAN :
        /\ agg = initialStateAndEffects(isFunction).agg
        /\ ents = initialStateAndEffects(isFunction).ents
        /\ mounted = TRUE
        /\ phase = "layout"
        /\ changed = AllArrays
        /\ queue = <<>>
        /\ entitiesRef = {}
        /\ layoutEntitiesRef = {}
        /\ startLog = <<>>
        /\ viaString = FALSE
        /\ burst = "none"

----------------------------------------------------------------------------
\* Actions

\* the entities the scenario's reducer creates for an event type
Creates(t) ==
    CASE t \in {"LOG", "START", "LSTART", "REPLACE", "STOPEXEC", "EXEC"} -> 1
      [] t \in {"THROW", "BAD", "BOOM"} -> 1
      [] t \in {"BOTH", "TWO"} -> 2
      [] OTHER -> 0

RECURSIVE QueuedCreates(_)
QueuedCreates(q) ==
    IF q = <<>> THEN 0 ELSE Creates(TypeOf(Head(q))) + QueuedCreates(Tail(q))

QueuedEvents(q) ==
    Cardinality({i \in 1..Len(q) : TypeOf(q[i]) # flushEffectsSymbol})

\* the event types dispatched from outside
DispatchTypes == EventTypes \ {"STOPEXEC"}

\* wrappedDispatch(event): from an event handler, a timer or another
\* component's effect; never inside the commit that runs the layout effects
wrappedDispatch(event) ==
    /\ mounted
    /\ phase \in {"passive", "idle"}
    /\ agg.state.count + QueuedEvents(queue) < MaxDispatches
    /\ Len(ents) + QueuedCreates(queue) + Creates(TypeOf(toEventObject(event)))
          <= MaxEntities
    /\ queue' = Append(queue, toEventObject(event))
    /\ viaString' = IsString(event)
    /\ burst' = IF burst \in {"none", "open"} THEN "open" ELSE "broken"
    /\ UNCHANGED <<mounted, phase, agg, changed, ents, entitiesRef,
                   layoutEntitiesRef, startLog>>

Dispatch ==
    \E t \in DispatchTypes :
        \/ wrappedDispatch(StringEvent(t))
        \/ wrappedDispatch(ObjectEvent(t))

\* ghost: anything but a dispatch ends a burst of dispatches
EndBurst == burst' = IF burst = "open" THEN "closed" ELSE burst

\* the render's result becomes the hook's state
Commit_PassiveFirst(r) ==
    /\ agg' = r.agg
    /\ ents' = r.ents
    /\ changed' = r.fresh
    /\ queue' = <<>>
    /\ phase' = "passive"

Commit(r) ==
    /\ agg' = r.agg
    /\ ents' = r.ents
    /\ changed' = r.fresh
    /\ queue' = <<>>
    /\ phase' = "layout"

\* the reducer threw in the render: React throws the render's work away and,
\* the error being uncaught, goes on to unmount the component; the hook's
\* state stays the one of the last commit
Discard(r) ==
    /\ agg' = agg
    /\ ents' = r.ents
    /\ changed' = changed
    /\ queue' = queue
    /\ phase' = "failed"

Rendered(r) == IF r.thrown THEN Discard(r) ELSE Commit(r)

\* React renders: it flushes pending passive effects first (so phase is
\* idle), reduces the queued events and commits the result
Render ==
    /\ mounted
    /\ phase = "idle"
    /\ queue # <<>>
    /\ Rendered(ReduceAll(Rendering, queue))
    /\ EndBurst
    /\ UNCHANGED <<mounted, entitiesRef, layoutEntitiesRef, startLog, viaString>>

\* what the layout effects leave behind
LayoutDone(d) ==
    /\ ents' = d.ents
    /\ layoutEntitiesRef' = d.ref
    /\ startLog' = d.log
    /\ queue' = d.queue
    /\ phase' = IF d.thrown THEN "failed" ELSE "passive"

\* what the passive effects leave behind
PassiveDone(d) ==
    /\ ents' = d.ents
    /\ entitiesRef' = d.ref
    /\ startLog' = d.log
    /\ queue' = d.queue
    /\ phase' = IF d.thrown THEN "failed" ELSE "idle"

\* the two useLayoutEffect callbacks of a commit, in the order declared
LayoutEffects ==
    /\ mounted
    /\ phase = "layout"
    /\ LayoutDone(
          DriverPass([ents |-> ents, ref |-> layoutEntitiesRef,
                      log |-> startLog, queue |-> queue, layout |-> TRUE,
                      thrown |-> FALSE],
                     agg.layoutEntitiesToStop,
                     "layoutEntitiesToStop" \in changed,
                     agg.layoutEffectStateTuples,
                     "layoutEffectStateTuples" \in changed))
    /\ EndBurst
    /\ UNCHANGED <<mounted, agg, changed, entitiesRef, viaString>>

\* the two useEffect callbacks of a commit, in the order declared
PassiveEffects ==
    /\ mounted
    /\ phase = "passive"
    /\ PassiveDone(
          DriverPass([ents |-> ents, ref |-> entitiesRef,
                      log |-> startLog, queue |-> queue, layout |-> FALSE,
                      thrown |-> FALSE],
                     agg.entitiesToStop,
                     "entitiesToStop" \in changed,
                     agg.effectStateTuples,
                     "effectStateTuples" \in changed))
    /\ EndBurst
    /\ UNCHANGED <<mounted, agg, changed, layoutEntitiesRef, viaString>>

\* the component unmounts, on its own or because an effect or the reducer
\* threw: the cleanups of both unmount effects run
Unmount ==
    /\ mounted
    /\ phase \in {"idle", "failed"}
    /\ ents' = StopStarted(StopStarted(ents, layoutEntitiesRef), entitiesRef)
    /\ mounted' = FALSE
    /\ EndBurst
    /\ UNCHANGED <<phase, agg, changed, queue, entitiesRef, layoutEntitiesRef,
                   startLog, viaString>>

Next == Dispatch \/ Render \/ LayoutEffects \/ PassiveEffects \/ Unmount

Spec == Init /\ [][Next]_vars

----------------------------------------------------------------------------
\* Vocabulary of the properties

Ids == 1..Len(ents)

\* how many times the effect body of an entity has run
Runs(e) == Len(ents[e].ran)

\* nothing is left to do: no event queued, no effect of a commit pending
Quiescent == mounted /\ phase = "idle" /\ queue = <<>>

\* the entities in the pending-start queue of a phase
InTuples(tuples) == UNION {Range(tuples[i].entities) : i \in 1..Len(tuples)}

PendingStart(e) ==
    IF ents[e].layout
    THEN e \in InTuples(agg.layoutEffectStateTuples)
    ELSE e \in InTuples(agg.effectStateTuples)

\* stop() reached the entity before its body ever ran
StoppedWhileIdle(e) == ents[e].status = Stopped /\ Runs(e) = 0

\* the entities of one phase, in the order their bodies ran
StartsOfPhase(isLayout) ==
    SelectSeq(startLog, LAMBDA e : ents[e].layout = isLayout)

Increasing(s) == \A i, j \in 1..Len(s) : i < j => s[i] < s[j]

\* No effect body runs twice (the half of C1 that the code keeps).
AtMostOnceStart == \A e \in Ids : Runs(e) <= 1

----------------------------------------------------------------------------
\* C1: the driver runs each entity's effect body at most once, and exactly
\* once (seen when nothing is left to do) for an entity that was not
\* stopped while Idle.
C1_StartExactlyOnce ==
    \A e \in Ids :
        /\ Runs(e) <= 1
        /\ (Quiescent /\ ~StoppedWhileIdle(e)) => Runs(e) = 1

\* C2: when all events were dispatched in one burst before anything else
\* ran, then once nothing is left to do every queued effect has run exactly
\* once, in dispatch order (within its phase), and both pending-start
\* queues are empty.
C2_BurstAllStarted ==
    (Quiescent /\ burst = "closed") =>
        /\ \A e \in Ids : ~StoppedWhileIdle(e) => Runs(e) = 1
        /\ Increasing(StartsOfPhase(FALSE))
        /\ Increasing(StartsOfPhase(TRUE))
        /\ agg.effectStateTuples = <<>>
        /\ agg.layoutEffectStateTuples = <<>>

\* C3: a flush removes only tuples the driver has handled: an entity that
\* is still Idle is still in the pending-start queue of its phase.
C3_FlushKeepsUnhandled ==
    \A e \in Ids : ents[e].status = Idle => PendingStart(e)

\* C4: every run of an effect body got the state returned by the reducer
\* call that queued the entity.
C4_StartedWithSnapshot ==
    \A e \in Ids : \A i \in 1..Runs(e) : <<ents[e].ran[i]>> = ents[e].queuedWith

\* C4 witness: two effects queued by different events of one batch ran, each
\* with its own snapshot, the earlier one not with the state of the render.
C4_Witness ==
    \E e1, e2 \in Ids :
        /\ Runs(e1) = 1 /\ Runs(e2) = 1
        /\ ~ents[e1].layout /\ ~ents[e2].layout
        /\ ents[e1].ran[1].count < ents[e2].ran[1].count
        /\ ents[e2].ran[1] = agg.state
        /\ agg.effectStateTuples # <<>>

\* C5: a stop asked for a Started entity is carried out: once nothing is
\* left to do, the entity is Stopped.
C5_StopCarriedOut ==
    Quiescent => \A e \in Ids : ents[e].stopAsked => ents[e].status = Stopped

\* C6: however often stop() is called on an entity that captured a cleanup,
\* the cleanup has run exactly once.
C6_CleanupOnce ==
    \A e \in Ids :
        (ents[e].status = Stopped /\ ents[e].effectCleanup) => ents[e].cleanups = 1

\* C7: the unmount stops every entity that is Started, of either phase,
\* running its cleanup, and afterwards no entity is Started.
C7_TeardownDrains ==
    /\ [][(mounted /\ ~mounted') =>
            \A e \in Ids :
                ents[e].status = Started =>
                    /\ ents'[e].status = Stopped
                    /\ ents[e].effectCleanup =>
                          ents'[e].cleanups = ents[e].cleanups + 1]_vars
    /\ [](~mounted => \A e \in Ids : ents[e].status # Started)

\* C7 witness: after the unmount, a normal and a layout entity for which no
\* stop was ever asked have had their cleanup run.
C7_Witness ==
    /\ ~mounted
    /\ \E e1, e2 \in Ids :
        /\ ~ents[e1].layout /\ ents[e2].layout
        /\ \A e \in {e1, e2} :
            /\ ents[e].cleanups = 1
            /\ ents[e].status = Stopped
            /\ ~ents[e].stopAsked
            /\ e \notin Range(agg.entitiesToStop) \cup Range(agg.layoutEntitiesToStop)

\* C8: the effect given to exec.replace never runs while the effect it
\* replaces is still running.
C8_ReplacedStoppedFirst ==
    \A e \in Ids :
        (ents[e].replaces # Undefined /\ ents[e].status = Started)
            => ents[ents[e].replaces].status # Started

\* C9: in every aggregate state, a reducer call that does exec.replace(timer,
\* effect) returns the aggregate that exec.stop(timer); exec(effect) returns
\* when timer is defined, and the one exec(effect) alone returns, with the
\* pending-stop queues as they were, when it is undefined; the entity it
\* returns is new and Idle.
C9_ReplaceIsStopThenExec ==
    LET viaReplace == wrappedReducer(agg, ObjectEvent("REPLACE"), ents)
        viaStopExec == wrappedReducer(agg, ObjectEvent("STOPEXEC"), ents)
        viaExec == wrappedReducer(agg, ObjectEvent("START"), ents)
        new == viaReplace.agg.state.timer
    IN  /\ IF agg.state.timer # Undefined
           THEN viaReplace.agg = viaStopExec.agg
           ELSE /\ viaReplace.agg = viaExec.agg
                /\ viaReplace.agg.entitiesToStop = agg.entitiesToStop
                /\ viaReplace.agg.layoutEntitiesToStop = agg.layoutEntitiesToStop
        /\ new = Len(ents) + 1
        /\ viaReplace.ents[new].status = Idle

\* C9 witness: a reducer call has replaced a layout entity through
\* exec.replace, state.timer is defined and a stop is pending.
C9_Witness ==
    /\ agg.state.timer # Undefined
    /\ agg.entitiesToStop # <<>>
    /\ \E e \in Ids : ents[e].replaces # Undefined /\ ents[ents[e].replaces].layout

\* C10: dispatching the bare string "X" and dispatching {type: "X"} queue
\* the same event, and for every aggregate a render produces (observed at
\* the commit that follows the render), the reducer returns the same
\* aggregate and entities for both forms, for every event type.
C10_StringEventSame ==
    \A t \in EventTypes :
        /\ Append(queue, toEventObject(StringEvent(t)))
              = Append(queue, toEventObject(ObjectEvent(t)))
        /\ TypeOf(toEventObject(StringEvent(t))) = t
        /\ phase = "layout" =>
              wrappedReducer(agg, toEventObject(StringEvent(t)), ents)
                = wrappedReducer(agg, toEventObject(ObjectEvent(t)), ents)

\* C10 witness: an event dispatched as a bare string has been reduced and
\* its effect has run.
C10_Witness ==
    /\ viaString
    /\ queue = <<>>
    /\ phase = "idle"
    /\ agg.state.count = 1
    /\ Len(startLog) = 1
    /\ Len(ents) = 1

----------------------------------------------------------------------------
\* the entities queued by the initializer: the only ones queued with the
\* state no event has counted in
InitialEntity(e) == ents[e].queuedWith = <<InitialDomainState>>

\* the commit of the mount: the aggregate is still the one useMemo built
MountCommit ==
    /\ agg = initialStateAndEffects(TRUE).agg
    /\ phase \in {"layout", "passive"}

\* C11: with a function-form initializer that calls exec, the initial state
\* is the value the initializer returned; the initial effect's body runs at
\* most once, with that state, as the first body to run; and it has run as
\* soon as the mount's driver passes are over, so before the reducer has
\* processed any dispatched event.
C11_InitialEffectFirst ==
    /\ initialStateAndEffects(TRUE).agg.state = InitialDomainState
    /\ \A e \in Ids :
          InitialEntity(e) =>
              /\ Runs(e) <= 1
              /\ Runs(e) = 0 =>
                    /\ MountCommit
                    /\ agg.state = InitialDomainState
                    /\ startLog = <<>>
              /\ Runs(e) = 1 =>
                    /\ ents[e].ran[1] = InitialDomainState
                    /\ startLog[1] = e

\* C11 witness: an event was dispatched during the mount, after the layout
\* pass and before the passive pass; the passive pass has run the initial
\* effect and the reducer has not yet processed the event.
C11_Witness ==
    /\ phase = "idle"
    /\ agg = initialStateAndEffects(TRUE).agg
    /\ Len(queue) = 3
    /\ TypeOf(queue[1]) = flushEffectsSymbol
    /\ TypeOf(queue[2]) = "START"
    /\ TypeOf(queue[3]) = flushEffectsSymbol
    /\ \E e \in Ids : InitialEntity(e) /\ Runs(e) = 1 /\ ents[e].status = Started

----------------------------------------------------------------------------
\* The hook under a reducer of named effects: EXEC events carry a
\* record-form descriptor, with or without an inline exec, and the reducer
\* hands it to exec.

NamedTypes == {"fetchData", "notify", "toString"}

Descriptors == {RecEffect(type, impl) : type \in NamedTypes, impl \in {NoExec, "log"}}

ExecEvent(effect) == [type |-> "EXEC", effect |-> effect]

DispatchExec == \E effect \in Descriptors : wrappedDispatch(ExecEvent(effect))

NextNamed == DispatchExec \/ Render \/ LayoutEffects \/ PassiveEffects \/ Unmount

SpecNamed == Init /\ [][NextNamed]_vars

\* The half of C12 the code keeps: an own entry of the map wins over the
\* inline exec.
OwnEntryWins ==
    \A e \in Ids :
        (ents[e].type \in DOMAIN effectsMap /\ ents[e].inline # NoExec)
            => /\ ents[e].exec = effectsMap[ents[e].type]
               /\ ents[e].exec # ents[e].inline

\* C12: an entity made from a record-form descriptor runs the map's
\* implementation, never the inline one, when the map has an entry for the
\* descriptor's type and the descriptor carries an inline exec; it runs the
\* inline exec when the map has no entry for the type.
C12_MapPrecedence ==
    \A e \in Ids :
        ents[e].type \in NamedTypes =>
            /\ (ents[e].type \in DOMAIN effectsMap /\ ents[e].inline # NoExec)
                  => /\ ents[e].exec = effectsMap[ents[e].type]
                     /\ ents[e].exec # ents[e].inline
            /\ ents[e].type \notin DOMAIN effectsMap
                  => ents[e].exec = ents[e].inline

----------------------------------------------------------------------------
\* a step in which React runs the reducer over the queued events
RenderStep == phase = "idle" /\ phase' = "layout"

\* a step in which the effects of a commit run
DriverStep ==
    \/ phase = "layout" /\ phase' = "passive"
    \/ phase = "passive" /\ phase' = "idle"

\* C13: the reducer step only keeps books: over a render, whatever the
\* events call (exec, exec.layout, exec.stop, exec.replace), no effect body
\* and no cleanup runs and no existing entity changes status, and the
\* entities it creates are Idle; a body only runs in a driver step, for an
\* entity that a reducer call which has returned had queued.
C13_ReducerOnlyKeepsBooks ==
    /\ [][RenderStep =>
            /\ startLog' = startLog
            /\ Len(ents') >= Len(ents)
            /\ \A e \in Ids :
                  /\ ents'[e].status = ents[e].status
                  /\ ents'[e].ran = ents[e].ran
                  /\ ents'[e].cleanups = ents[e].cleanups
                  /\ ents'[e].effectCleanup = ents[e].effectCleanup
            /\ \A e \in (Len(ents) + 1)..Len(ents') :
                  /\ ents'[e].status = Idle
                  /\ ents'[e].ran = <<>>
                  /\ ents'[e].cleanups = 0]_vars
    /\ [][\A e \in 1..Len(ents') :
            (e \notin Ids \/ ents'[e].ran # ents[e].ran) =>
                \/ RenderStep /\ e \notin Ids
                \/ /\ DriverStep
                   /\ agg' = agg
                   /\ e \in Ids
                   /\ ents[e].status = Idle
                   /\ ents[e].queuedWith # <<>>]_vars

\* C13 witness: a render has just processed events that asked to stop a
\* running entity and queued a new one: the one is still Started, its
\* cleanup not run, the other Idle.
C13_Witness ==
    /\ phase = "layout"
    /\ \E e1, e2 \in Ids :
        /\ ents[e1].stopAsked
        /\ ents[e1].status = Started
        /\ ents[e1].effectCleanup /\ ents[e1].cleanups = 0
        /\ e1 \in Range(agg.entitiesToStop)
        /\ ents[e2].status = Idle
        /\ ents[e2].replaces = e1
        /\ PendingStart(e2)

----------------------------------------------------------------------------
\* the four places of the data model
Tracked(e) == e \in entitiesRef \cup layoutEntitiesRef

PendingStop(e) == e \in Range(agg.entitiesToStop) \cup Range(agg.layoutEntitiesToStop)

Places(e) ==
    (IF PendingStart(e) THEN {"pending-start"} ELSE {})
        \cup (IF Tracked(e) THEN {"tracked-running"} ELSE {})
        \cup (IF PendingStop(e) THEN {"pending-stop"} ELSE {})
        \cup (IF ents[e].status = Stopped THEN {"stopped"} ELSE {})

----------------------------------------------------------------------------
\* The hook with a caller that uses the entity it finds in state.timer:
\* EffectEntity.start is part of the exported interface.

\* state.timer.start(state, dispatch), from an event handler
DirectStart ==
    /\ mounted
    /\ phase = "idle"
    /\ agg.state.timer # Undefined
    /\ \A e \in Ids : Runs(e) <= 1
    /\ ents' = [ents EXCEPT ![agg.state.timer] = EntityStart(@, agg.state)]
    /\ startLog' = Append(startLog, agg.state.timer)
    /\ EndBurst
    /\ UNCHANGED <<mounted, phase, agg, changed, queue, entitiesRef,
                   layoutEntitiesRef, viaString>>

NextEntity == Next \/ DirectStart

SpecEntity == Init /\ [][NextEntity]_vars

\* C15: start called on an entity whose status is not Idle does nothing:
\* in a step that is no render, no driver pass and no unmount (the caller's
\* own call of start is the only such step that reaches an entity), the
\* body of a Started or Stopped entity is not run again, its captured
\* cleanup is not replaced and its status does not change.
C15_StartOnlyWhenIdle ==
    [][\A e \in Ids :
          (ents[e].status # Idle /\ phase' = phase /\ mounted' = mounted)
              => /\ ents'[e].ran = ents[e].ran
                 /\ ents'[e].effectCleanup = ents[e].effectCleanup
                 /\ ents'[e].status = ents[e].status]_vars

----------------------------------------------------------------------------
\* the moves of an entity's status
StatusMoves == {<<Idle, Started>>, <<Started, Stopped>>, <<Idle, Stopped>>}

\* the entities a stop phase of the last commit has called stop() on
StoppedByPass ==
    (IF phase = "idle" THEN Range(agg.entitiesToStop) ELSE {})
        \cup (IF phase # "layout" THEN Range(agg.layoutEntitiesToStop) ELSE {})

\* C16: in every step of the hook (dispatch, render with its flushes,
\* driver pass, unmount) an entity's status stays or moves Idle to Started,
\* Started to Stopped or Idle to Stopped; a Stopped entity stays Stopped and
\* its body is never run by a later pass, nor by the start phase of the
\* pass whose stop phase stopped it.
C16_StoppedIsTerminal ==
    /\ [][\A e \in Ids :
            /\ \/ ents'[e].status = ents[e].status
               \/ <<ents[e].status, ents'[e].status>> \in StatusMoves
            /\ ents[e].status = Stopped
                  => /\ ents'[e].status = Stopped
                     /\ ents'[e].ran = ents[e].ran]_vars
    /\ [](\A e \in StoppedByPass : ents[e].status = Stopped)

\* C16 witness: a passive pass has gone over a pending-start queue that
\* holds an entity stopped while Idle, and has started another entity of
\* the queue; the stopped one is still Stopped, its body not run.
C16_Witness ==
    /\ phase = "idle"
    /\ \E e1, e2 \in Ids :
        /\ StoppedWhileIdle(e1) /\ ~ents[e1].layout /\ PendingStart(e1)
        /\ ents[e2].status = Started /\ ~ents[e2].layout /\ PendingStart(e2)

----------------------------------------------------------------------------
\* this step is the driver pass whose stop phase calls stop() on e
StopPhaseReaches(e) ==
    IF ents[e].layout
    THEN /\ phase = "layout" /\ phase' = "passive"
         /\ "layoutEntitiesToStop" \in changed
         /\ e \in Range(agg.layoutEntitiesToStop)
    ELSE /\ phase = "passive" /\ phase' = "idle"
         /\ "entitiesToStop" \in changed
         /\ e \in Range(agg.entitiesToStop)

\* C17: an entity that a stop phase reaches while it is Idle (exec.stop or
\* exec.replace named it before any pass started it) is Stopped after that
\* pass with its body not run, and stays so in every later step.
C17_StoppedBeforeStartNeverRuns ==
    /\ [][\A e \in Ids :
            (ents[e].status = Idle /\ StopPhaseReaches(e))
                => /\ ents'[e].status = Stopped
                   /\ ents'[e].ran = <<>>]_vars
    /\ [][\A e \in Ids :
            StoppedWhileIdle(e)
                => /\ ents'[e].status = Stopped
                   /\ ents'[e].ran = <<>>
                   /\ ents'[e].cleanups = 0]_vars

\* C17 witness: an entity queued and replaced in one batch was stopped
\* while Idle in the pass that started its replacement; the flush has been
\* processed, nothing is left to do and its body has not run.
C17_Witness ==
    /\ Quiescent
    /\ \E e1, e2 \in Ids :
        /\ StoppedWhileIdle(e1)
        /\ ents[e2].replaces = e1
        /\ Runs(e2) = 1
        /\ ~ents[e1].stopAsked
        /\ agg.effectStateTuples = <<>>
        /\ agg.layoutEffectStateTuples = <<>>

----------------------------------------------------------------------------
\* C18: in a driver pass, stop() has been called on every entity of the
\* pending-stop queue before the start phase runs the first body: each such
\* entity is stopped at a moment when no body of this pass has run yet, and
\* it is Stopped when the pass is over.
C18_StopPhaseFirst ==
    [][\A e \in Ids :
          StopPhaseReaches(e)
              => /\ ents'[e].status = Stopped
                 /\ ents'[e].stoppedAt = <<Len(startLog)>>]_vars

\* C18 witness: one passive pass has stopped a running entity, its cleanup
\* run, and then started the entity that replaces it.
C18_Witness ==
    /\ phase = "idle"
    /\ \E e1, e2 \in Ids :
        /\ ents[e2].replaces = e1
        /\ ents[e1].status = Stopped /\ ents[e1].cleanups = 1
        /\ ents[e2].status = Started
        /\ ents[e1].stoppedAt = <<Len(startLog) - 1>>
        /\ startLog[Len(startLog)] = e2
        /\ e1 \in Range(agg.entitiesToStop)
        /\ PendingStart(e2)

----------------------------------------------------------------------------
\* The hook under events whose reducer calls queue several effects: two of
\* one phase in one call (TWO), one of each phase (BOTH), one (LOG, LSTART).

OrderTypes == {"TWO", "BOTH", "LOG", "LSTART"}

DispatchOrder == \E t \in OrderTypes : wrappedDispatch(ObjectEvent(t))

NextOrder == DispatchOrder \/ Render \/ LayoutEffects \/ PassiveEffects \/ Unmount

SpecOrder == Init /\ [][NextOrder]_vars

\* C19: the bodies of one phase run in the order the entities were queued
\* (entities are numbered in the order exec created them: event after
\* event in dispatch order and, inside one reducer call, call after call):
\* no entity runs after an entity of its phase that was queued later.
C19_StartInQueueOrder ==
    /\ Increasing(StartsOfPhase(FALSE))
    /\ Increasing(StartsOfPhase(TRUE))

\* C19 witness: one passive pass has started the two entities of one tuple
\* and then the entity of a later tuple, in that order.
C19_Witness ==
    /\ phase = "idle"
    /\ Len(agg.effectStateTuples) = 2
    /\ Len(agg.effectStateTuples[1].entities) = 2
    /\ \E i \in 1..Len(startLog) :
        /\ i + 2 <= Len(startLog)
        /\ <<startLog[i], startLog[i + 1]>> = agg.effectStateTuples[1].entities
        /\ <<startLog[i + 2]>> = agg.effectStateTuples[2].entities

----------------------------------------------------------------------------
\* the tuples a reducer call removed from the front of a queue
Removed(before, after) == SubSeq(before, 1, Len(before) - Len(after))

\* processing the flush event f in the aggregate a removes the tuples the
\* pass that issued f went over, from the front of one queue, and nothing
\* else
TrimsObserved(a, f) ==
    LET r == wrappedReducer(a, f, <<>>).agg
        removed == Removed(a.effectStateTuples, r.effectStateTuples)
        layoutRemoved == Removed(a.layoutEffectStateTuples, r.layoutEffectStateTuples)
    IN  /\ f.count = Len(f.observed)
        /\ r.effectStateTuples = Slice(a.effectStateTuples, Len(removed))
        /\ r.layoutEffectStateTuples
              = Slice(a.layoutEffectStateTuples, Len(layoutRemoved))
        /\ \/ removed = f.observed /\ layoutRemoved = <<>>
           \/ layoutRemoved = f.observed /\ removed = <<>>

\* every flush event of the update queue q, processed in its turn
RECURSIVE FlushesTrimObserved(_, _)
FlushesTrimObserved(acc, q) ==
    \/ q = <<>>
    \/ /\ TypeOf(Head(q)) = flushEffectsSymbol => TrimsObserved(acc.agg, Head(q))
       /\ FlushesTrimObserved(ReduceOne(acc, Head(q)), Tail(q))

\* The half of C20 the code keeps: a flush event carries the number of
\* tuples the pass that issued it went over.
FlushCountsObserved ==
    \A i \in 1..Len(queue) :
        TypeOf(queue[i]) = flushEffectsSymbol
            => queue[i].count = Len(queue[i].observed) /\ queue[i].count > 0

\* C20: a flush event carries the number of pending-start tuples its pass
\* went over, and when the reducer processes it (whenever React may render)
\* exactly those tuples leave the front of that pass's pending-start queue
\* and every later tuple stays, in order.
C20_FlushTrimsObserved ==
    /\ FlushCountsObserved
    /\ (mounted /\ phase = "idle")
          => FlushesTrimObserved(Rendering, queue)

----------------------------------------------------------------------------
\* the entities on the pending-stop lists of an aggregate
StopsOf(a) == Range(a.entitiesToStop) \cup Range(a.layoutEntitiesToStop)

\* the entities the reducer call from a to b appended to the pending-stop
\* lists
AppendedStops(a, b) ==
    Range(Slice(b.entitiesToStop, Len(a.entitiesToStop)))
        \cup Range(Slice(b.layoutEntitiesToStop, Len(a.layoutEntitiesToStop)))

\* over the update queue q, processed event by event: each flush event
\* leaves on the pending-stop lists the entities (asked) that the events
\* before it in q put there
RECURSIVE FlushesKeepStops(_, _, _)
FlushesKeepStops(acc, q, asked) ==
    \/ q = <<>>
    \/ /\ TypeOf(Head(q)) = flushEffectsSymbol
       /\ asked \subseteq StopsOf(ReduceOne(acc, Head(q)).agg)
       /\ FlushesKeepStops(ReduceOne(acc, Head(q)), Tail(q), asked)
    \/ /\ TypeOf(Head(q)) # flushEffectsSymbol
       /\ FlushesKeepStops(ReduceOne(acc, Head(q)), Tail(q),
                           asked \cup AppendedStops(acc.agg,
                                                    ReduceOne(acc, Head(q)).agg))

\* C21: a flush event does not empty the pending-stop queue: whenever React
\* may render (the stop phases of the last commit have run), an entity that
\* an event of the update queue puts on a pending-stop list is still on it
\* after every flush event that follows that event in the queue.
C21_FlushKeepsNewStops ==
    (mounted /\ phase = "idle")
        => FlushesKeepStops(Rendering, queue, {})

----------------------------------------------------------------------------
\* the entities of the tuples a reducer call removed from the front of the
\* pending-start queue of a phase, and those it removed from the
\* pending-stop list of the phase
RemovedStarts(a, b, isLayout) ==
    IF isLayout
    THEN InTuples(Removed(a.layoutEffectStateTuples, b.layoutEffectStateTuples))
    ELSE InTuples(Removed(a.effectStateTuples, b.effectStateTuples))

RemovedStops(a, b, isLayout) ==
    IF isLayout
    THEN Range(a.layoutEntitiesToStop) \ Range(b.layoutEntitiesToStop)
    ELSE Range(a.entitiesToStop) \ Range(b.entitiesToStop)

\* processing the flush event f of one phase's pass takes from the other
\* phase's queues nothing that the other phase's pass has still to handle:
\* no tuple with an entity still Idle, no entity not yet Stopped
TrimsOwnPhase(acc, f) ==
    LET r == ReduceOne(acc, f)
    IN  /\ \A e \in RemovedStarts(acc.agg, r.agg, ~f.layout) :
              acc.ents[e].status # Idle
        /\ \A e \in RemovedStops(acc.agg, r.agg, ~f.layout) :
              acc.ents[e].status = Stopped

RECURSIVE FlushesTrimOwnPhase(_, _)
FlushesTrimOwnPhase(acc, q) ==
    \/ q = <<>>
    \/ /\ TypeOf(Head(q)) = flushEffectsSymbol => TrimsOwnPhase(acc, Head(q))
       /\ FlushesTrimOwnPhase(ReduceOne(acc, Head(q)), Tail(q))

\* C22: a flush event issued by the pass of one phase trims that phase's
\* queues only: whenever React may render, processing each flush event of
\* the update queue removes from the other phase's pending-start queue no
\* tuple whose entities are still to be started and from the other phase's
\* pending-stop list no entity still to be stopped.
C22_FlushTrimsOwnPhase ==
    (mounted /\ phase = "idle")
        => FlushesTrimOwnPhase(Rendering, queue)

----------------------------------------------------------------------------
\* the stop effects of the commit at hand have entities to call stop() on
StopPhaseWillRun(a, fresh) ==
    \/ "entitiesToStop" \in fresh /\ a.entitiesToStop # <<>>
    \/ "layoutEntitiesToStop" \in fresh /\ a.layoutEntitiesToStop # <<>>

\* C23: stop() is called once per request: when both passes of the last
\* commit are over (the stop phases have processed the pending-stop lists)
\* and React then renders events that request no stop and queue no effect
\* (NOOP events only, no flush event among them), the stop phases of the
\* new commit call stop() on no entity.
C23_NoRepeatedStop ==
    [][(RenderStep /\ \A i \in 1..Len(queue) : TypeOf(queue[i]) = "NOOP")
          => ~StopPhaseWillRun(agg', changed')]_vars

----------------------------------------------------------------------------
\* event types whose reducer call makes no exec call: NOOP only counts,
\* STOP calls at most exec.stop, UNKNOWN is no case of the reducer
ExecLessTypes == {"NOOP", "STOP", "UNKNOWN"}

\* the reducer call on event leaves both pending-start queues as they are,
\* the same arrays, and returns the user reducer's state
KeepsStartQueues(a, event, es) ==
    LET r == wrappedReducer(a, event, es)
    IN  /\ r.agg.effectStateTuples = a.effectStateTuples
        /\ r.agg.layoutEffectStateTuples = a.layoutEffectStateTuples
        /\ "effectStateTuples" \notin r.fresh
        /\ "layoutEffectStateTuples" \notin r.fresh
        /\ r.agg.state = effectReducer(a.state, event, NewCall(es)).state
        /\ Len(r.ents) = Len(es)

\* C24: for every aggregate a render produces, processing an event whose
\* reducer call makes no exec call appends no tuple to and removes none
\* from either pending-start queue, and the domain state is the reducer's
\* result.
C24_NoExecKeepsStartQueues ==
    phase = "layout" =>
        /\ \A t \in ExecLessTypes : KeepsStartQueues(agg, ObjectEvent(t), ents)
        /\ wrappedReducer(agg, ObjectEvent("NOOP"), ents).agg.state # agg.state

\* C24 witness: a render that followed the start of an effect has processed
\* only events without exec calls: the state has moved on and the
\* pending-start queues are the arrays of the commit before.
C24_Witness ==
    /\ phase = "layout"
    /\ agg.state.count >= 2
    /\ "effectStateTuples" \notin changed
    /\ "layoutEffectStateTuples" \notin changed
    /\ \E e \in Ids : ents[e].status = Started

----------------------------------------------------------------------------
\* the flush events of the update queue
FlushEvents == {queue[i] : i \in {j \in 1..Len(queue) : TypeOf(queue[j]) = flushEffectsSymbol}}

\* C25: processing a flush event, in any aggregate in which one is queued,
\* does not call the user's reducer, returns the domain state it was given,
\* creates no entity and changes no entity.
C25_FlushLeavesStateAlone ==
    \A f \in FlushEvents :
        /\ ~wrappedReducer(agg, f, ents).invoked
        /\ wrappedReducer(agg, f, ents).agg.state = agg.state
        /\ wrappedReducer(agg, f, ents).ents = ents

\* C25 witness: a render has processed the flush events of a commit that
\* started an effect and nothing else: the tuple is gone, the state is the
\* one of that commit, the entity is Started.
C25_Witness ==
    /\ phase = "layout"
    /\ changed = AllArrays
    /\ agg.state.count = 1
    /\ agg.state.timer # Undefined
    /\ agg.effectStateTuples = <<>>
    /\ agg.layoutEffectStateTuples = <<>>
    /\ Len(ents) = 1
    /\ ents[1].status = Started

----------------------------------------------------------------------------
\* The hook with effects that dispatch: a running effect (its timer or
\* promise callback) calls the dispatch it got as third argument, which is
\* the dispatch of useReducer itself.

\* the events an effect sends back
EffectEventTypes == {"NOOP", "STOP"}

\* an effect stops sending once a disposal function ran this many times
MaxCleanups == 2

\* dispatch(event), inside an effect started with
\* entity.start(effectState, dispatch)
EffectDispatch(event) ==
    /\ mounted
    /\ phase \in {"passive", "idle"}
    /\ \E e \in Ids : ents[e].status = Started /\ ents[e].exec # NoExec
    /\ agg.state.count + QueuedEvents(queue) < MaxDispatches
    /\ \A e \in Ids : ents[e].cleanups < MaxCleanups
    /\ queue' = Append(queue, event)
    /\ viaString' = IsString(event)
    /\ burst' = IF burst \in {"none", "open"} THEN "open" ELSE "broken"
    /\ UNCHANGED <<mounted, phase, agg, changed, ents, entitiesRef,
                   layoutEntitiesRef, startLog>>

DispatchFromEffect ==
    \E t \in EffectEventTypes :
        \/ EffectDispatch(StringEvent(t))
        \/ EffectDispatch(ObjectEvent(t))

NextEffectDispatch == Next \/ DispatchFromEffect

SpecEffectDispatch == Init /\ [][NextEffectDispatch]_vars

\* C26: an event dispatched by an effect is processed like the same event
\* dispatched through the hook's dispatch: every event of the update queue
\* is an event object, a bare type string having become {type: string},
\* and whenever React may render, the reducer's result for the queued event
\* is its result for the event the hook's dispatch would have queued.
C26_EffectDispatchSame ==
    \A i \in 1..Len(queue) :
        /\ ~IsString(queue[i])
        /\ phase = "idle"
              => wrappedReducer(agg, queue[i], ents)
                    = wrappedReducer(agg, toEventObject(queue[i]), ents)

----------------------------------------------------------------------------
\* The hook under a reducer that hands function-form descriptors to exec:
\* named functions, one of them with the name of a key of the effects map,
\* and an anonymous one.

FunctionNames == {"", "fetchData", "notify"}

FunctionDescriptors ==
    {FnEffect(name, impl) : name \in FunctionNames, impl \in {"log", "timer"}}

DispatchFunction ==
    \E effect \in FunctionDescriptors : wrappedDispatch(ExecEvent(effect))

NextFunction ==
    DispatchFunction \/ Render \/ LayoutEffects \/ PassiveEffects \/ Unmount

SpecFunction == Init /\ [][NextFunction]_vars

\* the entities made from a function-form descriptor (the initial effect of
\* the scenario is a record without exec)
FromFunction == {e \in Ids : ents[e].inline # NoExec}

\* C30: normalizing a function-form descriptor gives the function's name as
\* type (the empty string for an anonymous function) and the function
\* itself as exec, whatever the effects map holds, a key equal to the
\* function's name included: the entity made from it runs the function.
C30_FunctionIsItsOwnExec ==
    \A e \in FromFunction :
        /\ ents[e].type \in FunctionNames
        /\ ents[e].exec = ents[e].inline

----------------------------------------------------------------------------
\* The hook under a reducer and effects that throw: THROW queues an effect
\* whose body throws, BAD keeps in state.timer an effect whose disposal
\* function throws, BOOM makes the reducer throw after an exec call.

ThrowTypes == {"NOOP", "START", "STOP", "REPLACE", "THROW", "BAD", "BOOM"}

DispatchThrow == \E t \in ThrowTypes : wrappedDispatch(ObjectEvent(t))

NextThrow == DispatchThrow \/ Render \/ LayoutEffects \/ PassiveEffects \/ Unmount

SpecThrow == Init /\ [][NextThrow]_vars

\* the entities whose effect body threw when start called it
ThrewAtStart == {e \in Ids : Throws(ents[e].exec) /\ Runs(e) > 0}

\* C27 as the specification words it: an entity whose effect body threw
\* during start is left Started, with no cleanup captured, and is not started
\* again.
C27_ThrownLeftStarted ==
    \A e \in ThrewAtStart :
        /\ ents[e].status = Started
        /\ ~ents[e].effectCleanup
        /\ Runs(e) = 1

\* C27: when an effect body throws during start, the error is not caught:
\* the pass ends there, no entity queued after it is started and no flush is
\* dispatched by that pass. The entity is left Idle, in the tracking set,
\* with no cleanup captured; its body is not run again and no disposal
\* function is ever run for it.
C27_ThrownLeftIdle ==
    /\ [](\A e \in ThrewAtStart :
              /\ phase = "failed"
              /\ ents[e].status = Idle
              /\ e \in entitiesRef
              /\ ~ents[e].effectCleanup
              /\ ents[e].cleanups = 0
              /\ Runs(e) = 1)
    /\ [][\A e \in Ids :
              (Throws(ents[e].exec) /\ ents'[e].ran # ents[e].ran)
                  => /\ queue' = queue
                     /\ \A e2 \in (e + 1)..Len(ents) :
                           /\ ents'[e2].ran = ents[e2].ran
                           /\ ents'[e2].status = Started
                                 => ents[e2].status = Started]_vars

\* an effect body has thrown in a pass that had another entity to start
\* after it
C27_Witness ==
    \E e \in ThrewAtStart :
        \E e2 \in Ids :
            /\ e2 > e
            /\ e2 \in InTuples(agg.effectStateTuples)
            /\ ents[e2].status = Idle
            /\ ents[e2].exec # NoExec
            /\ mounted

\* the pending-stop list of the pass that is about to run
ListOfPass == IF phase = "layout" THEN agg.layoutEntitiesToStop ELSE agg.entitiesToStop

\* the tracking set of the pass that is about to run
RefOfPass == IF phase = "layout" THEN layoutEntitiesRef ELSE entitiesRef

\* the stop effect of the pass that is about to run will call stop()
StopRuns ==
    /\ phase \in {"layout", "passive"}
    /\ Len(ListOfPass) > 0
    /\ (IF phase = "layout" THEN "layoutEntitiesToStop" ELSE "entitiesToStop")
          \in changed

\* the places of the pending-stop list whose entity's disposal function
\* throws
ThrowingPlaces == {i \in 1..Len(ListOfPass) : StopThrows(ents[ListOfPass[i]])}

FirstThrowingPlace == CHOOSE i \in ThrowingPlaces : \A j \in ThrowingPlaces : i <= j

\* the entities the list names only after the first one whose disposal
\* function throws
AfterThrow ==
    {ListOfPass[j] : j \in (FirstThrowingPlace + 1)..Len(ListOfPass)}
        \ {ListOfPass[j] : j \in 1..FirstThrowingPlace}

\* C28: when a disposal function throws in the stop phase, the error leaves
\* the driver pass (no entity is started and no flush is dispatched by it),
\* the entities the pending-stop list names after the one that threw are
\* not stopped in that pass, and the entity whose disposal function threw
\* keeps status Started and stays in the tracking set.
C28_CleanupThrowEndsPass ==
    [][(StopRuns /\ ThrowingPlaces # {} /\ phase' # phase)
          => /\ phase' = "failed"
             /\ startLog' = startLog
             /\ queue' = queue
             /\ \A e \in AfterThrow : ents'[e] = ents[e]
             /\ ents[ListOfPass[FirstThrowingPlace]].status = Started
             /\ ents'[ListOfPass[FirstThrowingPlace]].status = Started
             /\ ents'[ListOfPass[FirstThrowingPlace]].cleanups
                   = ents[ListOfPass[FirstThrowingPlace]].cleanups + 1
             /\ ListOfPass[FirstThrowingPlace] \in entitiesRef' \cup layoutEntitiesRef'
       ]_vars

\* a disposal function has thrown in a stop phase whose list named another
\* entity after it, which was left as it was
C28_Witness ==
    /\ mounted
    /\ phase = "failed"
    /\ \E i \in 1..Len(agg.entitiesToStop) :
          \E j \in (i + 1)..Len(agg.entitiesToStop) :
              /\ StopThrows(ents[agg.entitiesToStop[i]])
              /\ ents[agg.entitiesToStop[i]].cleanups = 1
              /\ ents[agg.entitiesToStop[i]].status = Started
              /\ agg.entitiesToStop[i] \in entitiesRef
              /\ agg.entitiesToStop[j] # agg.entitiesToStop[i]
              /\ ents[agg.entitiesToStop[j]].status # Stopped

\* the entities of a reducer call that did not return: nothing noted the
\* state they were queued with (the initial effect is queued at mount)
Orphans == {e \in Ids : ents[e].queuedWith = <<>>}

\* the update queue holds an event the reducer throws on
QueueThrows == \E i \in 1..Len(queue) : ReducerThrows(queue[i])

\* C29: when the user's reducer throws on an event, the aggregate state is
\* as before: the domain state, both pending-start queues and both
\* pending-stop queues are unchanged, no effect runs in that step, and the
\* entities the exec calls made before the throw had created are never
\* started.
C29_ReducerThrowKeepsState ==
    /\ [][(phase = "idle" /\ phase' # phase /\ QueueThrows)
             => /\ agg' = agg
                /\ changed' = changed
                /\ startLog' = startLog
                /\ entitiesRef' = entitiesRef
                /\ layoutEntitiesRef' = layoutEntitiesRef
                /\ \A e \in Ids : /\ ents'[e].status = ents[e].status
                                  /\ ents'[e].ran = ents[e].ran
                                  /\ ents'[e].cleanups = ents[e].cleanups
                /\ Len(ents') > Len(ents)
                /\ \A e \in (Len(ents) + 1)..Len(ents') :
                      ents'[e].status = Idle /\ ents'[e].ran = <<>>
                /\ phase' = "failed"]_vars
    /\ [][phase = "failed"
             => \A e \in Ids : /\ ents'[e].ran = ents[e].ran
                               /\ ents'[e].status = Started
                                     => ents[e].status = Started]_vars
    /\ [](\A e \in Orphans :
              /\ ents[e].status = Idle
              /\ Runs(e) = 0
              /\ e \notin entitiesRef \cup layoutEntitiesRef
              /\ e \notin InTuples(agg.effectStateTuples)
                            \cup InTuples(agg.layoutEffectStateTuples))

\* the reducer has thrown in a render that had handled an event before it,
\* and the entity of its exec call is on the heap
C29_Witness ==
    /\ Orphans # {}
    /\ phase = "failed"
    /\ Len(queue) >= 2
    /\ ReducerThrows(queue[Len(queue)])
    /\ TypeOf(queue[1]) = "START"
    /\ ~mounted

----------------------------------------------------------------------------
\* the entities made from a record-form descriptor that carries no exec and
\* whose type is no key of the effects map
Unresolved ==
    {e \in Ids : ents[e].inline = NoExec /\ ents[e].type \notin DOMAIN effectsMap}

\* an entity that runs nothing: no implementation, no body run, no disposal
\* function captured or run
RunsNothing(e) ==
    /\ ents[e].exec = NoExec
    /\ Runs(e) = 0
    /\ ~ents[e].effectCleanup
    /\ ents[e].cleanups = 0

\* The part of C31 the code keeps: an unresolved effect whose type is no
\* property name of Object.prototype runs nothing.
UnresolvedPlainRunsNothing ==
    \A e \in Unresolved :
        ents[e].type \notin ObjectPrototypeKeys => RunsNothing(e)

\* C31: an effect whose implementation cannot be resolved is no error:
\* its entity has no implementation, starting it runs nothing and stopping
\* it runs no disposal function, whatever its status has become.
C31_UnresolvedRunsNothing ==
    \A e \in Unresolved : RunsNothing(e)

----------------------------------------------------------------------------
\* the entities of each phase
LayoutIds == {e \in Ids : ents[e].layout}
NormalIds == {e \in Ids : ~ents[e].layout}

\* C32: phase routing is consistent: the layout pending-start queue, the
\* layout pending-stop queue and the layout tracking set hold layout
\* entities only, the normal ones hold normal entities only, and an entity
\* a stop phase has stopped has left the tracking set of its own phase.
C32_PhaseRouting ==
    /\ InTuples(agg.layoutEffectStateTuples) \subseteq LayoutIds
    /\ InTuples(agg.effectStateTuples) \subseteq NormalIds
    /\ Range(agg.layoutEntitiesToStop) \subseteq LayoutIds
    /\ Range(agg.entitiesToStop) \subseteq NormalIds
    /\ layoutEntitiesRef \subseteq LayoutIds
    /\ entitiesRef \subseteq NormalIds
    /\ \A e \in Ids :
          ents[e].stoppedAt # <<>> => e \notin entitiesRef \cup layoutEntitiesRef

\* a layout entity was started and then stopped through the layout queue,
\* while a normal entity is running
C32_Witness ==
    /\ \E e \in LayoutIds :
          /\ ents[e].stopAsked
          /\ ents[e].stoppedAt # <<>>
          /\ ents[e].status = Stopped
          /\ Runs(e) = 1
    /\ \E e \in NormalIds : e \in entitiesRef /\ ents[e].status = Started

----------------------------------------------------------------------------
\* the place of an entity's effect body in the order the bodies ran
LogPlace(e) == CHOOSE i \in 1..Len(startLog) : startLog[i] = e

\* a layout entity and a normal entity queued by the same reducer call
\* (every call of the scenario returns a state of its own)
SameCall(e1, e2) ==
    /\ ents[e1].layout /\ ~ents[e2].layout
    /\ ents[e1].queuedWith # <<>>
    /\ ents[e1].queuedWith = ents[e2].queuedWith
    /\ ents[e1].exec # NoExec /\ ents[e2].exec # NoExec

\* C33: for one committed aggregate the layout pass runs before the normal
\* pass: when the normal pass is about to run, the layout stop phase and the
\* layout start phase of the commit have run (no entity of the layout
\* queues is left Idle or unstopped), and of a layout effect and a normal
\* effect queued by the same reducer call that both start, the layout one
\* starts first.
C33_LayoutBeforeNormal ==
    /\ phase = "passive" =>
          /\ \A e \in InTuples(agg.layoutEffectStateTuples) : ents[e].status # Idle
          /\ \A e \in Range(agg.layoutEntitiesToStop) : ents[e].status = Stopped
    /\ \A e1 \in Ids : \A e2 \in Ids :
          (SameCall(e1, e2) /\ Runs(e1) > 0 /\ Runs(e2) > 0)
              => LogPlace(e1) < LogPlace(e2)

\* a reducer call queued a normal effect and then a layout effect; both have
\* run
C33_Witness ==
    \E e1 \in Ids : \E e2 \in Ids :
        /\ SameCall(e1, e2)
        /\ e2 < e1
        /\ Runs(e1) = 1 /\ Runs(e2) = 1

----------------------------------------------------------------------------
\* The hook under a scheduler that does not stall: React renders when
\* updates are queued and runs the effects of every commit.

Fairness ==
    /\ WF_vars(Render)
    /\ WF_vars(LayoutEffects)
    /\ WF_vars(PassiveEffects)

SpecLive == Spec /\ Fairness

\* the loop of dispatches, driver passes and flush events comes to rest
ComesToRest == <>[](~mounted \/ Quiescent)

\* C34: after finitely many dispatches, the effects dispatching nothing, the
\* loop of dispatches, driver passes and flush events reaches quiescence
\* (ComesToRest), and at quiescence both pending-start queues are empty and
\* no entity is Idle.
C34_CleanAtQuiescence ==
    Quiescent =>
        /\ agg.effectStateTuples = <<>>
        /\ agg.layoutEffectStateTuples = <<>>
        /\ \A e \in Ids : ents[e].status # Idle

----------------------------------------------------------------------------
\* the tracking set of an entity's phase
OwnRef(e) == IF ents[e].layout THEN layoutEntitiesRef ELSE entitiesRef

\* C35: in every reachable state, unmounted ones included, an entity whose
\* status is Started is in the tracking set of its phase, so that the
\* unmount cleanup reaches it, and an entity a stop phase has taken out of
\* a tracking set has status Stopped.
C35_StartedIsTracked ==
    \A e \in Ids :
        /\ ents[e].status = Started => e \in OwnRef(e)
        /\ (ents[e].stoppedAt # <<>> /\ e \notin OwnRef(e))
              => ents[e].status = Stopped

\* a layout entity and a normal entity are Started and tracked, and a stop
\* phase has taken out an entity that had been started
C35_Witness ==
    /\ \E e \in LayoutIds : ents[e].status = Started /\ e \in layoutEntitiesRef
    /\ \E e \in NormalIds : ents[e].status = Started /\ e \in entitiesRef
    /\ \E e \in Ids :
          /\ Runs(e) = 1
          /\ ents[e].stoppedAt # <<>>
          /\ e \notin OwnRef(e)
          /\ ents[e].status = Stopped

\* C36: every tuple of either pending-start queue holds at least one
\* entity, in every reachable state, the initial aggregate of a
\* function-form initializer included; so every flush event a driver pass
\* dispatches follows a pass that had at least one entity to consider.
C36_NoEmptyTuple ==
    /\ \A i \in 1..Len(agg.effectStateTuples) :
          agg.effectStateTuples[i].entities # <<>>
    /\ \A i \in 1..Len(agg.layoutEffectStateTuples) :
          agg.layoutEffectStateTuples[i].entities # <<>>
    /\ \A i \in 1..Len(queue) :
          TypeOf(queue[i]) = flushEffectsSymbol
              => \E j \in 1..Len(queue[i].observed) :
                    queue[i].observed[j].entities # <<>>

====
